---- MODULE Spec2Model ----
(***************************************************************************)
(* A model of brevitas/graph/gptq.py.                                      *)
(*                                                                         *)
(*   SpecSession  the gptq_mode context manager: __init__, __enter__,      *)
(*                calls of the model through catch_stopfwd, update() and   *)
(*                __exit__, driven by an arbitrary driver.                 *)
(*   SpecLayer    one GPTQ object: update_batch and the steps of           *)
(*                single_layer_update on exact (rational) tensors.         *)
(*   SpecBatch    two GPTQ accumulators fed the same samples, one in a     *)
(*                single batch and one in two halves.                      *)
(***************************************************************************)
EXTENDS Integers, Sequences, FiniteSets, TLC

VARIABLES
    \* ---- gptq_mode (SpecSession) ----
    modules,                \* model.named_modules(), in execution order
    use_quant_activations,  \* constructor argument
    phase,                  \* "constructed" | "entered" | "exited"
    forward,                \* model.forward: "catch_stopfwd" | "orig_forward"
    hooks,                  \* names of the modules with a live forward hook
    gptq_layers,            \* name -> per-layer GPTQ state (abstracted)
    current_layer,          \* LayerHandler.layer_name (0 is None)
    num_layers,
    act_quant_enabled,      \* activation / bias quantization of the model
    callResult,             \* what the last call of the model did
    updateResult,           \* what the last update() did
    updateLog,              \* names whose single_layer_update ran, in order
    batchesThisIter,        \* calls of the model since the last update()
    outsideCalls,           \* calls of the model outside the with block
    contractOK,             \* the driver has followed the documented loop
    \* ---- one GPTQ object (SpecLayer) ----
    layer,                  \* [cls, groups]: the wrapped module
    act_order,
    num_blocks,
    weight,                 \* layer.weight.data, flattened to [rows][columns]
    H,                      \* self.H numerators, [groups][columns][columns]
    Hden,                   \* their common denominator (0: self.H deleted)
    nsamples,
    pc,                     \* where single_layer_update stands
    permutation_list,
    perm,                   \* the local variable perm of single_layer_update
    h_inv,
    i1,                     \* first column of the current block (0-based)
    i,                      \* column within the block (0-based)
    weight_block,
    error_block,
    warned,                 \* warnings.warn was called for this layer
    weightBefore,           \* weight when single_layer_update was called
    deadAtStart,            \* per group, the dead columns found
    sortKeys,               \* per group, the diagonal that argsort was given
    qUsed,                  \* per row and column, the q its residual used
    \* ---- batching of the accumulator (SpecBatch) ----
    batchLayer,
    batchForm,              \* number of dimensions of the input tensor
    firstHalf, secondHalf,  \* the samples
    accWhole,               \* [H, Hden, nsamples] after one batch of all
    accSplit,               \* [H, Hden, nsamples] after the halves so far
    wholeFed,
    halvesFed

sessionVars == <<modules, use_quant_activations, phase, forward,
                 hooks, gptq_layers, current_layer, num_layers,
                 act_quant_enabled, callResult, updateResult, updateLog,
                 batchesThisIter, outsideCalls, contractOK>>

layerVars == <<layer, act_order, num_blocks, weight, H, Hden, nsamples, pc,
               permutation_list, perm, h_inv, i1, i, weight_block,
               error_block, warned, weightBefore, deadAtStart, sortKeys,
               qUsed>>

batchVars == <<batchLayer, batchForm, firstHalf, secondHalf, accWhole,
               accSplit, wholeFed, halvesFed>>

vars == <<sessionVars, layerVars, batchVars>>

\* ------------------------------------------------------------------------
\* Bounds
\* ------------------------------------------------------------------------
NumModules == 3
MaxBatches == 1
MaxOutsideCalls == 1
MaxSamples == 1
HalfBatch == 1

\* ------------------------------------------------------------------------
\* gptq_mode
\* ------------------------------------------------------------------------
None == 0

\* The kinds of submodule a model is built from (groups, out_channels as
\* the eligibility test reads them).
ModuleKinds ==
    { [cls |-> "QuantLinear", groups |-> 1, out_channels |-> 2],
      [cls |-> "QuantConv2d", groups |-> 2, out_channels |-> 2],
      [cls |-> "QuantConv2d", groups |-> 2, out_channels |-> 4] }

is_module_supported(module) ==
    IF module.cls = "QuantConv2d"
          /\ (module.groups = 1 \/ module.groups = module.out_channels)
    THEN TRUE
    ELSE IF module.cls = "QuantLinear" THEN TRUE
    ELSE FALSE

Names == 1..NumModules

\* A per-layer GPTQ object as the session sees it: the sample count and
\* whether self.H still exists.
NewGPTQ == [nsamples |-> 0, hasH |-> TRUE]

\* update_batch as a hook: name the current layer, accumulate, raise.
HookFires(layers, name, batch_size) ==
    [layers EXCEPT ![name].nsamples = @ + batch_size]

\* The first module, in execution order from m on, whose forward hook is
\* attached (0 when the pass reaches the end of the network).
RECURSIVE FirstHooked(_, _)
FirstHooked(m, attached) ==
    IF m > NumModules THEN 0
    ELSE IF m \in attached THEN m
    ELSE FirstHooked(m + 1, attached)

\* orig_forward: run the modules in order.  failAt is the module whose own
\* forward raises some other exception (0: none does).  A module's forward
\* hook runs after its forward.
orig_forward(attached, failAt) ==
    LET h == FirstHooked(1, attached) IN
    IF failAt # 0 /\ (h = 0 \/ failAt <= h)
    THEN [exc |-> "OtherException", fired |-> 0]
    ELSE IF h # 0
    THEN [exc |-> "StopFwdException", fired |-> h]
    ELSE [exc |-> "none", fired |-> 0]

\* A wrapper whose except clause catches nothing.
catch_nothing(r) == [exc |-> r.exc, fired |-> r.fired, caught |-> 0]

\* catch_stopfwd: try orig_forward, except StopFwdException: pass.
catch_stopfwd(r) ==
    IF r.exc = "StopFwdException"
    THEN [exc |-> "none", fired |-> r.fired, caught |-> 1]
    ELSE [exc |-> r.exc, fired |-> r.fired, caught |-> 0]

\* update() that leaves the hook in place.
keep_hook(attached, name) == attached

\* hook_dict[name].remove()
remove_hook(attached, name) == attached \ {name}

NoCall == [phase |-> "none", exc |-> "none", fired |-> 0, caught |-> 0,
           failed |-> FALSE, hooked |-> FALSE]

InitSessionVars ==
    /\ modules \in [Names -> ModuleKinds]
    /\ use_quant_activations \in BOOLEAN
    /\ phase = "constructed"
    /\ forward = "catch_stopfwd"
    /\ hooks = {}
    /\ gptq_layers = [n \in {} |-> NewGPTQ]
    /\ current_layer = None
    /\ num_layers = 0
    /\ act_quant_enabled = TRUE
    /\ callResult = NoCall
    /\ updateResult = "none"
    /\ updateLog = <<>>
    /\ batchesThisIter = 0
    /\ outsideCalls = 0
    /\ contractOK = TRUE

\* __enter__
Enter ==
    /\ phase = "constructed"
    /\ LET supported == {n \in Names : is_module_supported(modules[n])} IN
       /\ hooks' = supported
       /\ gptq_layers' = [n \in supported |-> NewGPTQ]
       /\ num_layers' = Cardinality(supported)
    /\ act_quant_enabled' = IF ~use_quant_activations THEN FALSE
                            ELSE act_quant_enabled
    /\ phase' = "entered"
    /\ UNCHANGED <<modules, use_quant_activations, forward,
                   current_layer, callResult, updateResult, updateLog,
                   batchesThisIter, outsideCalls, contractOK>>

\* model(batch): Module.__call__ runs model.forward.
CallModel ==
    /\ IF phase = "entered"
       THEN batchesThisIter < MaxBatches
       ELSE outsideCalls < MaxOutsideCalls
    /\ \E failAt \in 0..NumModules :
        LET raw == orig_forward(hooks, failAt)
            r == IF forward = "catch_stopfwd" THEN catch_stopfwd(raw)
                 ELSE [exc |-> raw.exc, fired |-> raw.fired, caught |-> 0]
        IN
        /\ callResult' = [phase |-> phase, exc |-> r.exc, fired |-> r.fired,
                          caught |-> r.caught,
                          failed |-> (raw.exc = "OtherException"),
                          hooked |-> (hooks # {})]
        /\ IF r.fired # 0
           THEN /\ current_layer' = r.fired
                /\ gptq_layers' = HookFires(gptq_layers, r.fired, 1)
           ELSE UNCHANGED <<current_layer, gptq_layers>>
        /\ contractOK' = (contractOK /\ phase = "entered" /\ r.exc = "none"
                          /\ Len(updateLog) < num_layers)
    /\ IF phase = "entered"
       THEN /\ batchesThisIter' = batchesThisIter + 1
            /\ UNCHANGED outsideCalls
       ELSE /\ outsideCalls' = outsideCalls + 1
            /\ UNCHANGED batchesThisIter
    /\ UNCHANGED <<modules, use_quant_activations, phase,
                   forward, hooks, num_layers, act_quant_enabled,
                   updateResult, updateLog>>

\* update(): single_layer_update of the current layer, then remove its hook.
\* A missing key and a deleted self.H raise before anything is changed.
Update ==
    /\ phase = "entered"
    /\ batchesThisIter' = 0
    /\ contractOK' = (contractOK /\ batchesThisIter >= 1)
    /\ IF current_layer \notin DOMAIN gptq_layers
       THEN /\ updateResult' = "KeyError"
            /\ UNCHANGED <<gptq_layers, hooks, updateLog>>
       ELSE IF ~gptq_layers[current_layer].hasH
       THEN /\ updateResult' = "AttributeError"
            /\ UNCHANGED <<gptq_layers, hooks, updateLog>>
       ELSE \E linalgError \in BOOLEAN :
            /\ gptq_layers' = [gptq_layers EXCEPT
                                 ![current_layer].hasH = FALSE]
            /\ hooks' = remove_hook(hooks, current_layer)
            /\ updateLog' = Append(updateLog, current_layer)
            /\ updateResult' = IF linalgError THEN "warned" ELSE "updated"
    /\ UNCHANGED <<modules, use_quant_activations, phase,
                   forward, current_layer, num_layers, act_quant_enabled,
                   callResult, outsideCalls>>

\* __exit__
Exit ==
    /\ phase = "entered"
    /\ forward' = "orig_forward"
    /\ act_quant_enabled' = IF ~use_quant_activations THEN TRUE
                            ELSE act_quant_enabled
    /\ phase' = "exited"
    /\ contractOK' = (contractOK /\ Len(updateLog) = num_layers
                      /\ batchesThisIter = 0)
    /\ UNCHANGED <<modules, use_quant_activations, hooks,
                   gptq_layers, current_layer, num_layers, callResult,
                   updateResult, updateLog, batchesThisIter, outsideCalls>>

SessionIdle ==
    /\ modules = <<>> /\ use_quant_activations = TRUE /\ phase = "none"
    /\ forward = "orig_forward" /\ hooks = {} /\ gptq_layers = <<>>
    /\ current_layer = None /\ num_layers = 0 /\ act_quant_enabled = TRUE
    /\ callResult = NoCall /\ updateResult = "none" /\ updateLog = <<>>
    /\ batchesThisIter = 0 /\ outsideCalls = 0 /\ contractOK = TRUE

\* ------------------------------------------------------------------------
\* GPTQ: tensors are exact.  self.H is the integer tensor H over the common
\* denominator Hden; weights are integers; an error (w - q) / d is kept as
\* the fraction [num, den].
\* ------------------------------------------------------------------------
RECURSIVE Sum(_, _)
Sum(f, S) ==
    IF S = {} THEN 0
    ELSE LET x == CHOOSE y \in S : TRUE IN f[x] + Sum(f, S \ {x})

RECURSIVE Flatten(_)
Flatten(ss) == IF ss = <<>> THEN <<>> ELSE Head(ss) \o Flatten(Tail(ss))

Abs(x) == IF x < 0 THEN -x ELSE x

RECURSIVE Gcd(_, _)
Gcd(a, b) == IF b = 0 THEN Abs(a) ELSE Gcd(b, a % b)

RECURSIVE GcdAll(_)
GcdAll(xs) == IF xs = <<>> THEN 0 ELSE Gcd(Head(xs), GcdAll(Tail(xs)))

Rows(W) == Len(W)
Columns(W) == Len(W[1])

\* The layers a GPTQ object is built for, with their flattened weights:
\* rows = weight.shape[0], columns = weight.shape[1].
LayerKinds ==
    { [cls |-> "QuantLinear", groups |-> 1],
      [cls |-> "QuantConv2d", groups |-> 1],
      [cls |-> "QuantConv2d", groups |-> 2] }

InitWeights == { << <<5, -3, 2>>, <<1, 6, -7>> >>,
                 << <<3, 9, -6>>, <<-2, 5, 7>> >> }

NumBlocksChoices == {2, 4}

\* Calibration inputs by layer.  A QuantLinear sees [samples, features] or
\* [batch, tokens, features]; a QuantConv2d sees [batch, channels, pixels]
\* whose spatial size is the kernel size, so that Unfold yields one patch
\* per image.
Vecs == { <<1, 2, 0>>, <<0, 1, 1>>, <<2, 0, 0>>, <<0, 0, 3>> }

Inputs(lyr) ==
    IF lyr.cls = "QuantLinear"
    THEN { [ndim |-> 2, data |-> <<v>>] : v \in Vecs }
         \cup { [ndim |-> 3, data |-> << <<v>> >>] : v \in Vecs }
    ELSE IF lyr.groups = 1
    THEN { [ndim |-> 4, data |-> << << <<v[1]>>, <<v[2]>>, <<v[3]>> >> >>] :
             v \in Vecs }
    ELSE { [ndim |-> 4, data |-> << <<u, v>> >>] : u \in Vecs, v \in Vecs }

\* __init__: blocksize = ceil(columns / num_blocks)
blocksize(columns, nblocks) == (columns + nblocks - 1) \div nblocks

ZeroMatrix(n) == [a \in 1..n |-> [b \in 1..n |-> 0]]

\* __init__: H = zeros((groups, columns, columns)), nsamples = 0
NewH(groups, columns) == [g \in 1..groups |-> ZeroMatrix(columns)]

\* torch.chunk(inp, groups, 1) followed by Unfold, permute, flatten: per
\* group, one feature vector per image (the group's channels, flattened).
Chunk(image, groups, g) ==
    LET per == Len(image) \div groups
    IN SubSeq(image, (g - 1) * per + 1, g * per)

Unfold(channels) == Flatten(channels)

\* patches x patches^T of one group: X is a sequence of feature vectors.
Gram(X, n) ==
    [a \in 1..n |-> [b \in 1..n |->
        Sum([s \in 1..Len(X) |-> X[s][a] * X[s][b]], 1..Len(X))]]

\* Lowest terms of the tensor T over den.
Normalize(T, den) ==
    LET n == Len(T[1])
        g == Gcd(den, GcdAll(Flatten(Flatten(T))))
    IN [H |-> [k \in 1..Len(T) |-> [a \in 1..n |-> [b \in 1..n |->
                  T[k][a][b] \div g]]],
        Hden |-> den \div g]

\* update_batch, lines 179-181: if len(inp.shape) == 2: inp.unsqueeze(0)
unsqueeze_if_2d(inp) ==
    IF inp.ndim = 2 THEN [ndim |-> 3, data |-> <<inp.data>>] ELSE inp

\* update_batch, lines 183-210: batch_size and inp_processed.
Preprocess(lyr, input) ==
    LET inp == unsqueeze_if_2d(input)
        batch_size == Len(inp.data)
    IN [batch_size |-> batch_size,
        inp_processed |->
          IF lyr.cls = "QuantLinear"
          THEN << IF inp.ndim = 3 THEN Flatten(inp.data) ELSE inp.data >>
          ELSE [g \in 1..lyr.groups |->
                  [b \in 1..Len(inp.data) |->
                      Unfold(Chunk(inp.data[b], lyr.groups, g))]]]

\* update_batch, lines 212-216:
\*   H *= nsamples / (nsamples + batch_size); nsamples += batch_size
\*   H += (sqrt(2 / nsamples) X) (sqrt(2 / nsamples) X)^T
hessian(st, batch_size, G) ==
    LET n == Len(G[1])
        m == st.nsamples + batch_size
    IN Normalize([g \in 1..Len(G) |-> [a \in 1..n |-> [b \in 1..n |->
                    st.H[g][a][b] * st.nsamples + 2 * G[g][a][b] * st.Hden]]],
                 st.Hden * m)
       @@ [nsamples |-> m]

\* update_batch on the accumulator st = [H, Hden, nsamples].
update_batch(lyr, st, input) ==
    LET p == Preprocess(lyr, input)
        n == Len(st.H[1])
    IN hessian(st, p.batch_size,
               [g \in 1..Len(st.H) |-> Gram(p.inp_processed[g], n)])

\* LayerQuantizer: round to the nearest multiple of 4, ties to even.
Quantize(w) ==
    LET k == w \div 4
        r == w % 4
    IN IF r < 2 THEN 4 * k
       ELSE IF r > 2 THEN 4 * (k + 1)
       ELSE IF k % 2 = 0 THEN 4 * k ELSE 4 * (k + 1)

\* dead = torch.diag(H[g]) == 0
Dead(Hg) == {j \in 1..Len(Hg) : Hg[j][j] = 0}

\* H[g, dead, dead] = 1
FixDead(Hg, den) ==
    [a \in 1..Len(Hg) |-> [b \in 1..Len(Hg) |->
        IF a = b /\ Hg[a][a] = 0 THEN den ELSE Hg[a][b]]]

Perms(n) ==
    {p \in [1..n -> 1..n] : \A a, b \in 1..n : a # b => p[a] # p[b]}

\* argsort without descending=True.
argsort_ascending(diag) ==
    {p \in Perms(Len(diag)) :
        \A a \in 1..(Len(diag) - 1) : diag[p[a]] <= diag[p[a + 1]]}

\* torch.argsort(diag, descending=True); equal keys come in any order.
argsort(diag) ==
    {p \in Perms(Len(diag)) :
        \A a \in 1..(Len(diag) - 1) : diag[p[a]] >= diag[p[a + 1]]}

\* torch.tensor(range(columns))
ordered_index(n) == [a \in 1..n |-> a]

\* Hg[perm, :][:, perm]
Permute(Hg, p) ==
    [a \in 1..Len(Hg) |-> [b \in 1..Len(Hg) |-> Hg[p[a]][p[b]]]]

PercDampDen == 100

\* H[g, diag, diag] += percdamp * mean(diag(H[g])), over the denominator
\* den * PercDampDen * columns.
Damp(Hg) ==
    LET n == Len(Hg)
        trace == Sum([a \in 1..n |-> Hg[a][a]], 1..n)
    IN [a \in 1..n |-> [b \in 1..n |->
          PercDampDen * n * Hg[a][b] + (IF a = b THEN trace ELSE 0)]]

\* A column that no other column is correlated with.
Isolated(Hg, a) == \A b \in 1..Len(Hg) : b # a => Hg[a][b] = 0

\* What cholesky, cholesky_inverse and cholesky(upper=True) leave in H[g]
\* when none of them raises: an upper triangular factor with a positive
\* diagonal that couples no isolated column to any other.  Entries are
\* drawn so that every product error * h_inv is an integer.
InverseFactors(Hg) ==
    { [a \in 1..Len(Hg) |-> [b \in 1..Len(Hg) |->
         IF a = b THEN d
         ELSE IF a < b /\ ~Isolated(Hg, a) /\ ~Isolated(Hg, b) THEN d * r
         ELSE 0]] : d \in {1, 2}, r \in {-1, 0, 1} }

\* get_quant_weights: quantize the current weight, permute each row as the
\* float view is permuted, and take column i of the block [i1, i2).
get_quant_weights(W, lyr, actOrder, ii, b1, plist) ==
    [r \in 1..Rows(W) |->
        LET c == b1 + ii + 1
        IN IF actOrder
           THEN IF lyr.groups = 1 THEN Quantize(W[r][plist[1][c]])
                ELSE Quantize(W[r][plist[r][c]])
           ELSE Quantize(W[r][c])]

\* error * h for the fraction error = [num, den]
Times(error, h) == (error.num * h) \div error.den

GroupOf(lyr, r) == IF lyr.groups > 1 THEN r ELSE 1

\* line 323: weight[:, perm[i1:i2][i:]] = weight_block[:, i:]
write_back(W, wb, p, b1, ii, count) ==
    [r \in 1..Rows(W) |-> [c \in 1..Columns(W) |->
        LET ks == {k \in (ii + 1)..count : p[b1 + k] = c}
        IN IF ks = {} THEN W[r][c]
           ELSE wb[r][CHOOSE k \in ks : TRUE]]]

LayerIdle ==
    /\ layer = [cls |-> "none", groups |-> 0] /\ act_order = FALSE
    /\ num_blocks = 0 /\ weight = <<>> /\ H = <<>> /\ Hden = 0
    /\ nsamples = 0 /\ pc = "none" /\ permutation_list = <<>>
    /\ perm = <<>> /\ h_inv = <<>> /\ i1 = 0 /\ i = 0
    /\ weight_block = <<>> /\ error_block = <<>> /\ warned = FALSE
    /\ weightBefore = <<>> /\ deadAtStart = <<>> /\ sortKeys = <<>>
    /\ qUsed = <<>>

\* GPTQ.__init__
InitLayerVars ==
    /\ layer \in LayerKinds
    /\ act_order \in BOOLEAN
    /\ num_blocks \in NumBlocksChoices
    /\ weight \in InitWeights
    /\ H = NewH(layer.groups, Columns(weight))
    /\ Hden = 1
    /\ nsamples = 0
    /\ pc = "idle"
    /\ permutation_list = <<>> /\ perm = <<>> /\ h_inv = <<>>
    /\ i1 = 0 /\ i = 0 /\ weight_block = <<>> /\ error_block = <<>>
    /\ warned = FALSE /\ weightBefore = <<>> /\ deadAtStart = <<>>
    /\ sortKeys = <<>> /\ qUsed = <<>>

\* The forward hook: update_batch on one calibration batch.
UpdateBatch ==
    /\ pc = "idle"
    /\ nsamples < MaxSamples
    /\ \E input \in Inputs(layer) :
        LET st == update_batch(layer,
                     [H |-> H, Hden |-> Hden, nsamples |-> nsamples], input)
        IN /\ H' = st.H
           /\ Hden' = st.Hden
           /\ nsamples' = st.nsamples
    /\ UNCHANGED <<layer, act_order, num_blocks, weight, pc,
                   permutation_list, perm, h_inv, i1, i, weight_block,
                   error_block, warned, weightBefore, deadAtStart, sortKeys,
                   qUsed>>

\* single_layer_update, lines 220-287: dead columns, permutations, damping
\* and the inverse factor; H is deleted whatever happens.
UpdateStart ==
    /\ pc = "idle"
    /\ LET groups == layer.groups
           n == Columns(weight)
           fixed == [g \in 1..groups |-> FixDead(H[g], Hden)]
           keys == [g \in 1..groups |-> [a \in 1..n |-> fixed[g][a][a]]]
       IN
       /\ weightBefore' = weight
       /\ deadAtStart' = [g \in 1..groups |-> Dead(H[g])]
       /\ sortKeys' = keys
       /\ weight' = [r \in 1..Rows(weight) |-> [c \in 1..n |->
                       IF c \in Dead(H[GroupOf(layer, r)]) THEN 0
                       ELSE weight[r][c]]]
       /\ \E plist \in [1..groups -> Perms(n)] :
           /\ \A g \in 1..groups :
                IF act_order THEN plist[g] \in argsort(keys[g])
                ELSE plist[g] = ordered_index(n)
           /\ permutation_list' = plist
           /\ perm' = plist[groups]
           /\ LET damped == [g \in 1..groups |->
                                Damp(Permute(fixed[g], plist[g]))]
              IN \/ /\ h_inv' \in [1..groups -> UNION
                                     {InverseFactors(damped[g]) :
                                        g \in 1..groups}]
                    /\ \A g \in 1..groups :
                         h_inv'[g] \in InverseFactors(damped[g])
                    /\ warned' = FALSE
                    /\ pc' = "block"
                 \/ \* LinAlgError from one of the factorizations, which
                    \* takes observed activations (overflow, NaN, rounding)
                    /\ \E g \in 1..groups : Dead(H[g]) # 1..n
                    /\ h_inv' = <<>>
                    /\ warned' = TRUE
                    /\ pc' = "failed"
    /\ H' = <<>>
    /\ Hden' = 0
    /\ i1' = 0
    /\ i' = 0
    /\ qUsed' = [r \in 1..Rows(weight) |-> [c \in 1..Columns(weight) |-> <<>>]]
    /\ UNCHANGED <<layer, act_order, num_blocks, nsamples, weight_block,
                   error_block>>

\* lines 289-305: the head of the block loop
BlockStart ==
    /\ pc = "block"
    /\ LET n == Columns(weight)
           i2 == IF i1 + blocksize(n, num_blocks) < n
                 THEN i1 + blocksize(n, num_blocks) ELSE n
           count == i2 - i1
       IN
       /\ weight_block' =
            [r \in 1..Rows(weight) |-> [k \in 1..count |->
                weight[r][permutation_list[GroupOf(layer, r)][i1 + k]]]]
       /\ error_block' =
            [r \in 1..Rows(weight) |-> [k \in 1..count |->
                [num |-> 0, den |-> 1]]]
    /\ perm' = permutation_list[layer.groups]
    /\ i' = 0
    /\ pc' = "column"
    /\ UNCHANGED <<layer, act_order, num_blocks, weight, H, Hden, nsamples,
                   permutation_list, h_inv, i1, warned, weightBefore,
                   deadAtStart, sortKeys, qUsed>>

\* lines 306-323: one column of the block
ColumnStep ==
    /\ pc = "column"
    /\ LET n == Columns(weight)
           count == Len(weight_block[1])
           c == i1 + i + 1
           q == get_quant_weights(weight, layer, act_order, i, i1,
                                  permutation_list)
           error == [r \in 1..Rows(weight) |->
                       [num |-> weight_block[r][i + 1] - q[r],
                        den |-> h_inv[GroupOf(layer, r)][c][c]]]
           wb == [r \in 1..Rows(weight) |-> [k \in 1..count |->
                    IF k >= i + 1
                    THEN weight_block[r][k]
                         - Times(error[r],
                                 h_inv[GroupOf(layer, r)][c][i1 + k])
                    ELSE weight_block[r][k]]]
       IN
       /\ weight_block' = wb
       /\ error_block' = [r \in 1..Rows(weight) |->
                            [error_block[r] EXCEPT ![i + 1] = error[r]]]
       /\ weight' = write_back(weight, wb, perm, i1, i, count)
       /\ qUsed' = [r \in 1..Rows(weight) |->
                      [qUsed[r] EXCEPT
                         ![permutation_list[GroupOf(layer, r)][c]] = <<q[r]>>]]
       /\ IF i + 1 < count
          THEN i' = i + 1 /\ pc' = "column"
          ELSE i' = i /\ pc' = "block_end"
    /\ UNCHANGED <<layer, act_order, num_blocks, H, Hden, nsamples,
                   permutation_list, perm, h_inv, i1, warned, weightBefore,
                   deadAtStart, sortKeys>>

\* lines 325-333: the block's errors reach the columns of later blocks
BlockEnd ==
    /\ pc = "block_end"
    /\ LET n == Columns(weight)
           count == Len(weight_block[1])
           i2 == i1 + count
       IN
       /\ weight' =
            [r \in 1..Rows(weight) |-> [col \in 1..n |->
                LET g == GroupOf(layer, r)
                    p == permutation_list[g]
                    js == {j \in (i2 + 1)..n : p[j] = col}
                IN IF js = {} THEN weight[r][col]
                   ELSE LET j == CHOOSE x \in js : TRUE
                        IN weight[r][col]
                           - Sum([k \in 1..count |->
                                    Times(error_block[r][k],
                                          h_inv[g][i1 + k][j])],
                                 1..count)]]
       /\ i1' = i2
       /\ pc' = IF i2 < n THEN "block" ELSE "done"
    /\ perm' = permutation_list[layer.groups]
    /\ UNCHANGED <<layer, act_order, num_blocks, H, Hden, nsamples,
                   permutation_list, h_inv, i, weight_block, error_block,
                   warned, weightBefore, deadAtStart, sortKeys, qUsed>>


\* ------------------------------------------------------------------------
\* Two accumulators of the same layer: one observes the samples as a single
\* batch, the other as two halves.
\* ------------------------------------------------------------------------
\* The forms in which a batch of samples reaches the layer's hook.
InputForms(lyr) == IF lyr.cls = "QuantLinear" THEN {2, 3} ELSE {4}

\* One sample of a batch, by layer and input form: a feature vector, a
\* sequence of one token, or an image.
Samples(lyr, ndim) ==
    IF lyr.cls = "QuantLinear"
    THEN IF ndim = 2 THEN Vecs ELSE { <<v>> : v \in Vecs }
    ELSE IF lyr.groups = 1
    THEN { << <<v[1]>>, <<v[2]>>, <<v[3]>> >> : v \in Vecs }
    ELSE { <<u, v>> : u \in Vecs, v \in Vecs }

NewAcc(lyr) == [H |-> NewH(lyr.groups, 3), Hden |-> 1, nsamples |-> 0]

BatchIdle ==
    /\ batchLayer = [cls |-> "none", groups |-> 0] /\ batchForm = 0
    /\ firstHalf = <<>> /\ secondHalf = <<>> /\ accWhole = <<>>
    /\ accSplit = <<>> /\ wholeFed = FALSE /\ halvesFed = 0

InitBatchVars ==
    /\ batchLayer \in LayerKinds
    /\ batchForm \in InputForms(batchLayer)
    /\ firstHalf \in [1..HalfBatch -> Samples(batchLayer, batchForm)]
    /\ secondHalf \in [1..HalfBatch -> Samples(batchLayer, batchForm)]
    /\ accWhole = NewAcc(batchLayer)
    /\ accSplit = NewAcc(batchLayer)
    /\ wholeFed = FALSE
    /\ halvesFed = 0

\* One forward pass over all the samples.
FeedWhole ==
    /\ batchLayer.cls # "none"
    /\ ~wholeFed
    /\ accWhole' = update_batch(batchLayer, accWhole,
                     [ndim |-> batchForm, data |-> firstHalf \o secondHalf])
    /\ wholeFed' = TRUE
    /\ UNCHANGED <<batchLayer, batchForm, firstHalf, secondHalf, accSplit,
                   halvesFed>>

\* One forward pass over the next half of the samples.
FeedHalf ==
    /\ batchLayer.cls # "none"
    /\ halvesFed < 2
    /\ accSplit' = update_batch(batchLayer, accSplit,
                     [ndim |-> batchForm,
                      data |-> IF halvesFed = 0 THEN firstHalf
                               ELSE secondHalf])
    /\ halvesFed' = halvesFed + 1
    /\ UNCHANGED <<batchLayer, batchForm, firstHalf, secondHalf, accWhole,
                   wholeFed>>

\* ------------------------------------------------------------------------
\* Specifications
\* ------------------------------------------------------------------------
InitSession == InitSessionVars /\ LayerIdle /\ BatchIdle

NextSession ==
    \/ Enter /\ UNCHANGED <<layerVars, batchVars>>
    \/ CallModel /\ UNCHANGED <<layerVars, batchVars>>
    \/ Update /\ UNCHANGED <<layerVars, batchVars>>
    \/ Exit /\ UNCHANGED <<layerVars, batchVars>>

SpecSession == InitSession /\ [][NextSession]_vars

InitLayer == InitLayerVars /\ SessionIdle /\ BatchIdle

NextLayer ==
    \/ UpdateBatch /\ UNCHANGED <<sessionVars, batchVars>>
    \/ UpdateStart /\ UNCHANGED <<sessionVars, batchVars>>
    \/ BlockStart /\ UNCHANGED <<sessionVars, batchVars>>
    \/ ColumnStep /\ UNCHANGED <<sessionVars, batchVars>>
    \/ BlockEnd /\ UNCHANGED <<sessionVars, batchVars>>

SpecLayer == InitLayer /\ [][NextLayer]_vars

InitBatch == InitBatchVars /\ SessionIdle /\ LayerIdle

NextBatch ==
    \/ FeedWhole /\ UNCHANGED <<sessionVars, layerVars>>
    \/ FeedHalf /\ UNCHANGED <<sessionVars, layerVars>>

SpecBatch == InitBatch /\ [][NextBatch]_vars

\* ------------------------------------------------------------------------
\* Properties
\* ------------------------------------------------------------------------
RECURSIVE EligibleFrom(_)
EligibleFrom(m) ==
    IF m > Len(modules) THEN <<>>
    ELSE IF is_module_supported(modules[m])
    THEN <<m>> \o EligibleFrom(m + 1)
    ELSE EligibleFrom(m + 1)

\* The eligible layers in execution order.
EligibleOrder == EligibleFrom(1)

\* C1: while the driver follows the documented loop (for each of num_layers
\* iterations: at least one batch through the model, then update() once),
\* the k-th update() runs single_layer_update of the k-th eligible layer in
\* execution order, never raises for a missing or an already consumed layer
\* state, and when the loop is over every eligible layer has been updated
\* exactly once.
C1_AdvanceFollowsExecutionOrder ==
    contractOK =>
        /\ updateResult \in {"none", "updated", "warned"}
        /\ Len(updateLog) <= Len(EligibleOrder)
        /\ \A k \in 1..Len(updateLog) : updateLog[k] = EligibleOrder[k]
        /\ (phase = "exited" => updateLog = EligibleOrder)

C1_Witness ==
    /\ contractOK
    /\ phase = "exited"
    /\ Len(updateLog) >= 2
    /\ Len(updateLog) = num_layers

C3_OriginalBehaviourRestored ==
    phase = "exited" =>
        /\ forward = "orig_forward"
        /\ act_quant_enabled
        /\ (callResult.phase = "exited" =>
               callResult.fired = 0 /\ callResult.exc # "StopFwdException")

\* C4: when a factorization fails, single_layer_update returns with a
\* warning and with the layer's weights exactly as they were when it was
\* called.
C4_FailureLeavesWeights ==
    pc = "failed" => warned /\ weight = weightBefore

\* C6: single_layer_update on a layer that never saw a calibration batch
\* (nsamples = 0, H all zero) leaves the weights as they were.
C6_ZeroSamplesLeaveWeights ==
    (nsamples = 0 /\ pc \in {"done", "failed"}) => weight = weightBefore

\* C7: when the update has completed, every column whose diagonal entry
\* in H was zero at the start is zero in the weight rows of its group.
C7_DeadColumnsZero ==
    pc = "done" =>
        \A r \in 1..Len(weight) :
            \A c \in deadAtStart[GroupOf(layer, r)] : weight[r][c] = 0

\* C8: every column that has been corrected holds, from then on, the
\* quantized value q its residual was computed from.
C8_ProcessedColumnsHoldQ ==
    pc \in {"block", "column", "block_end", "done"} =>
        \A r \in 1..Len(weight) : \A c \in 1..Len(weight[r]) :
            qUsed[r][c] # <<>> => weight[r][c] = qUsed[r][c][1]

\* C9: with act_order, each group's permutation is a permutation of the
\* columns that lists them by descending value of the diagonal H holds
\* when it is sorted (dead entries already forced to 1); without it, each
\* group's permutation is the identity.
C9_PermutationCorrect ==
    pc \in {"block", "column", "block_end", "done", "failed"} =>
        \A g \in 1..layer.groups :
            LET p == permutation_list[g]
                n == Len(sortKeys[g])
            IN IF act_order
               THEN /\ DOMAIN p = 1..n
                    /\ {p[a] : a \in 1..n} = 1..n
                    /\ \A a, b \in 1..n :
                         a < b => sortKeys[g][p[a]] >= sortKeys[g][p[b]]
               ELSE \A a \in 1..n : p[a] = a

C9_Witness ==
    /\ pc = "block"
    /\ act_order
    /\ layer.groups = 2
    /\ deadAtStart[1] # {}
    /\ permutation_list[1] # permutation_list[2]
    /\ \E a \in 1..3 : permutation_list[1][a] # a

\* C10: during the correction of a block, the weight seen through each
\* row's own permutation is the corrected block: what was read from
\* weight[r, permutation_list[g][i1:i2]] is written back there.
C10_WriteBackThroughOwnPermutation ==
    pc \in {"column", "block_end"} =>
        \A r \in 1..Len(weight) : \A k \in 1..Len(weight_block[r]) :
            weight[r][permutation_list[GroupOf(layer, r)][i1 + k]]
                = weight_block[r][k]

\* C5: the accumulator and the sample count after one batch of all the
\* samples equal those after the same samples in two halves.
C5_BatchingInvariance ==
    (wholeFed /\ halvesFed = 2) => accWhole = accSplit

====
